---- MODULE Spec2Model ----
(***************************************************************************)
(* The three-stage streaming pipeline of processAllEXR                     *)
(* (src/src/deep_compositor.cpp): a loader, a merger and a flattener       *)
(* thread that hand scanlines to each other through the rowStatus array    *)
(* and two rings of DeepRow slots.  The DeepRow buffer and flattenRow are  *)
(* those of src/src/temp.cpp, mergePixelsDirect is src/src/deep_merger.h   *)
(* (the header deep_compositor.cpp includes), and the chunked loader is    *)
(* the loader_worker of src/src/temp.cpp.                                  *)
(*                                                                         *)
(* Floats are fixed-point integers in units of 1/Scale.  A memory block is *)
(* a sequence of floats; float offset k (0-based, as in the C++ pointer    *)
(* arithmetic) is element k + 1 of the sequence.                           *)
(***************************************************************************)
EXTENDS Integers, Sequences, FiniteSets, TLC

\* ------------------------------------------------------------------ bounds
\* Ring size.  The program uses 32 (deep_compositor.cpp:124); the protocol
\* is parametric in it and the model runs it on a smaller ring.
windowSize == 4
\* Loader batch size of the chunked loader (16 in the program, temp.cpp:3).
chunkSize == 2
\* Largest image height tried; larger than the ring, so slots are reused.
MaxHeight == 6
\* Largest number of input files tried.
MaxFiles == 2

\* Image width of the modelled inputs.
width == 2
\* The z offset tried for input 0 with --mod-offset (in units of 0.001).
ZOffset == 20

\* Largest number of command line arguments tried (argc - 1).
MaxArgs == 5
\* Largest image height tried when the whole program is run, main included.
MainHeight == 2
\* Number of scanlines a truncated input file still holds.
TruncatedRows == 1

\* Largest number of samples of a pixel in the rows flattenRow is run on alone.
MaxSamples == 2

\* ------------------------------------------------------- program constants
EMPTY == 0
LOADED == 1
MERGED == 2
FLATTENED == 3
\* 1.0f
Scale == 1000
\* 0.999f, the early-out threshold of flattenRow
AlphaCut == 999
\* floats per sample in DeepRow, deep_merger.h and flattenRow (R,G,B,A,Z)
RowStride == 5
\* floats per sample the loader hands to the decoder (R,G,B,A,Z,ZBack)
LoadStride == 6
\* 0.001, the default of --merge-threshold
DefaultThreshold == 1
\* the width and the height main passes to writePNG
PngWidth == 16
PngHeight == 16
\* exitCode while the process runs
NoExit == 0 - 1
\* an indeterminate float: storage that new float[n] has not initialised,
\* or memory outside a block
Indet == -1

\* ------------------------------------------------------------- arithmetic
RECURSIVE SumSeq(_)
SumSeq(s) == IF s = <<>> THEN 0 ELSE Head(s) + SumSeq(Tail(s))

RECURSIVE Flat(_)
\* concatenation of a sequence of sequences
Flat(ss) == IF ss = <<>> THEN <<>> ELSE Head(ss) \o Flat(Tail(ss))

\* float product in fixed point
FMul(a, b) == (a * b) \div Scale

Min(a, b) == IF a < b THEN a ELSE b

VARIABLES
    height,          \* image height H (deep_compositor.cpp:119)
    numFiles,        \* number of inputs N (deep_compositor.cpp:55)
    pattern,         \* which input images are read (counts, samples, channels)
    inputZOffsets,   \* opts.inputZOffsets[i], as parseArgs leaves them (main.cpp:94-124)
    mergeThreshold,  \* opts.mergeThreshold (main.cpp:79-89)
    rowStatus,       \* rowStatus[y], y in 0..height-1
    m_inputBuffer,   \* m_inputBuffer[i][slot], a DeepRow
    m_mergedBuffer,  \* m_mergedBuffer[slot], a DeepRow
    finalImage,      \* the RGBA raster, width * height * 4 floats
    ld_pc, load_y, load_i, yStart,   \* loader thread
    mg_pc, merge_y, merge_x,         \* merger thread
    wr_pc, write_y,                  \* flattener (writer) thread
    returned,        \* processAllEXR has joined the threads and returned finalImage
    crashed,         \* the process has been killed by a memory fault
    argv,            \* the command line, argv[1 .. argc-1]
    arg_i,           \* parseArgs: the loop index i
    opts,            \* the Options record main passes around (the fields besides the two above)
    fileKind,        \* fileKind[i]: what the file system holds under opts.inputFiles[i]
    main_pc,         \* main: where it stands
    exitCode,        \* the exit code of the process, NoExit while it runs
    artefacts,       \* the output files main has written, each with what its writer was handed
    failedRows,      \* history: the rows of which a scanline read has thrown
    fr_deepRow,      \* flattenRow: its argument deepRow
    fr_rgbOutput,    \* flattenRow: its argument rgbOutput
    fr_x, fr_s,      \* flattenRow: the loop indices x and s
    fr_acc,          \* flattenRow: <<accR, accG, accB, accA>>
    fr_samplePtr,    \* flattenRow: samplePtr, as a float offset into allSamples
    fr_pc,           \* flattenRow: where it stands
    liveBlocks,      \* history: blocks obtained with new[] and not yet delete[]d
    nstores,         \* history: nstores[y] = number of stores made to rowStatus[y]
    rasterWrites     \* history: rasterWrites[y] = number of copies that wrote raster row y

vars == <<height, numFiles, pattern, inputZOffsets, mergeThreshold, rowStatus, m_inputBuffer, m_mergedBuffer,
          finalImage, ld_pc, load_y, load_i, yStart, mg_pc, merge_y, merge_x,
          wr_pc, write_y, returned, crashed, argv, arg_i, opts, fileKind, main_pc,
          exitCode, artefacts, failedRows, fr_deepRow, fr_rgbOutput, fr_x, fr_s, fr_acc,
          fr_samplePtr, fr_pc, liveBlocks, nstores, rasterWrites>>

Rows == 0 .. (height - 1)
Files == 0 .. (numFiles - 1)
Slots == 0 .. (windowSize - 1)
Patterns ==
    {"uniform", "growing", "sparse", "over", "opaque", "colocated", "volume", "noZBack",
     "background"}

\* ------------------------------------------------- the deep scanline source
\* Number of samples input i holds at pixel (x, y).
SourceCount(i, y, x) ==
    CASE pattern = "growing" -> 1 + (y \div windowSize)
      [] pattern = "sparse" -> IF (x + y + i) % 2 = 0 THEN 1 ELSE 0
      [] OTHER -> 1

\* Whether the header of input i lists a ZBack channel.
HasZBack(i) == pattern # "noZBack"

\* Sample s of input i at pixel (x, y) as the file stores it:
\* <<R, G, B, A, Z, ZBack>>, premultiplied.
\*   over:      a half transparent red point at z = 5 in input 0, an opaque green
\*              point at z = 10 in the other inputs
\*   opaque:    an opaque red point at z = 5 and an opaque green point at z = 10,
\*              listed in either order (the order alternates with the row)
\*   colocated: the same point sample (0.3, 0, 0, 0.3) at z = 3 in every input
\*   volume:    volume samples [2, 8], [5, 11], ... that overlap across inputs
\*   background: an opaque point at z = 10 in the last input, a fully
\*              transparent point at z = 5 in the inputs before it
\*   others:    different for every row, pixel and input; input 1 lies just in
\*              front of input 0
StoredSample(i, y, x, s) ==
    CASE pattern = "over" ->
            IF i = 0 THEN <<500, 0, 0, 500, 5, 5>> ELSE <<0, 1000, 0, 1000, 10, 10>>
      [] pattern = "opaque" ->
            IF (i + y) % 2 = 0 THEN <<1000, 0, 0, 1000, 5, 5>>
                               ELSE <<0, 1000, 0, 1000, 10, 10>>
      [] pattern = "colocated" -> <<300, 0, 0, 300, 3, 3>>
      [] pattern = "volume" -> <<100 * (i + 1), 0, 0, 500, 2 + 3 * i, 8 + 3 * i>>
      [] pattern = "background" ->
            IF i = numFiles - 1 THEN <<200, 400, 600, 1000, 10, 10>>
                                ELSE <<0, 0, 0, 0, 5, 5>>
      [] OTHER ->
            <<50 * (y + 1), 100 * (x + 1), 100 * (i + 1), 500, 10 * (s + 1) - i,
              10 * (s + 1)>>

\* The six floats readPixels delivers for a sample: a channel the frame buffer
\* names and the file does not hold is filled with the slice's fill value, 0.
SourceSample(i, y, x, s) ==
    IF HasZBack(i) THEN StoredSample(i, y, x, s)
    ELSE [StoredSample(i, y, x, s) EXCEPT ![6] = 0]

\* getSampleCountsForRow(y): the counts of one row
getSampleCountsForRow(i, y) == [x \in 1 .. width |-> SourceCount(i, y, x - 1)]

\* What the file system can hold under an input file name:
\*   deep:      a deep scanline image of width x height
\*   dims:      a deep scanline image one pixel wider
\*   flat:      an image that is not deep
\*   missing:   nothing that can be opened
\*   truncated: a deep image of width x height whose scanlines from row
\*              TruncatedRows on cannot be read
FileKinds == {"deep", "dims", "flat", "missing", "truncated"}

\* isDeepEXR(opts.inputFiles[i])
isDeepEXR(i) == fileKind[i] \in {"deep", "dims", "truncated"}

\* the DeepInfo constructor opens the file and does not throw
Opens(i) == fileKind[i] # "missing"

\* img->width(), img->height() of input i
InfoWidth(i) == IF fileKind[i] = "dims" THEN width + 1 ELSE width
InfoHeight(i) == height

\* the comparison of input i with imagesInfo[0] as it would be if it were left out
DimsMatchAlways(i) == TRUE

\* img->width() == imagesInfo[0]->width() && img->height() == imagesInfo[0]->height()
DimsMatch(i) == InfoWidth(i) = InfoWidth(0) /\ InfoHeight(i) = InfoHeight(0)

\* readPixelSampleCounts(y, y) or readPixels(y, y) of input i throws
ReadThrows(i, y) == fileKind[i] = "truncated" /\ y >= TruncatedRows

\* ------------------------------------------------------------------ DeepRow
NullRow ==
    [isNull |-> TRUE, mem |-> <<>>, width |-> 0, sampleCounts |-> <<>>,
     totalSamplesInRow |-> 0, currentCapacity |-> 0]

\* new float[n]
NewBlock(n) == [k \in 1 .. n |-> Indet]

\* DeepRow::ensureCapacity
ensureCapacity(row, required) ==
    IF required > row.currentCapacity
    THEN [row EXCEPT !.isNull = FALSE, !.mem = NewBlock(required),
                     !.currentCapacity = required]
    ELSE row

\* DeepRow::allocate(width, maxSamples)
allocateMax(row, w, maxSamples) ==
    [ensureCapacity([row EXCEPT !.width = w], maxSamples * RowStride)
        EXCEPT !.sampleCounts = [x \in 1 .. w |-> 0]]

\* DeepRow::allocate(width, counts): always a new block, the old one is not deleted
allocateCounts(row, w, counts) ==
    [row EXCEPT !.width = w, !.sampleCounts = counts,
                !.totalSamplesInRow = SumSeq(counts), !.isNull = FALSE,
                !.mem = NewBlock(SumSeq(counts) * RowStride),
                !.currentCapacity = SumSeq(counts) * RowStride]

\* DeepRow::clear: currentCapacity, width and totalSamplesInRow are left as they are
clear(row) == [row EXCEPT !.isNull = TRUE, !.mem = <<>>, !.sampleCounts = <<>>]

\* DeepRow::getSampleCount(x).  An index past the end of the vector (the row was
\* cleared by another thread) reads 0 where the process survives it.
getSampleCount(row, x) ==
    IF x < Len(row.sampleCounts) THEN row.sampleCounts[x + 1] ELSE 0

\* the number of samples of the pixels before pixel x
SamplesBefore(row, x) == SumSeq([k \in 1 .. x |-> getSampleCount(row, k - 1)])

\* DeepRow::getPixelData(x): the float offset of pixel x in allSamples
getPixelData(row, x) == SamplesBefore(row, x) * RowStride

\* sampleCounts is indexed past its end when pixels 0 .. width-1 are visited
CountsOverrun(row) == Len(row.sampleCounts) < width

\* Change of the number of live blocks made by each DeepRow call: new[] adds
\* one, delete[] removes one.
allocateCountsBlocks(row) == 1
allocateMaxBlocks(row, maxSamples) ==
    IF maxSamples * RowStride > row.currentCapacity
    THEN (IF row.isNull THEN 1 ELSE 0)
    ELSE 0
clearBlocks(row) == IF row.isNull THEN 0 ELSE 0 - 1

\* read of the float at offset k of a row's block
Rd(row, k) == IF ~row.isNull /\ k >= 0 /\ k < Len(row.mem) THEN row.mem[k + 1] ELSE Indet

\* write of the floats vals at offset off .. off + Len(vals) - 1 of a block; the
\* part that falls outside the block does not land in it
WriteAt(mem, off, vals) ==
    [k \in 1 .. Len(mem) |->
        IF k - 1 >= off /\ k - 1 < off + Len(vals) THEN vals[k - off] ELSE mem[k]]

\* ------------------------------------------------------------- the loader
\* The per-pixel pointers the loader gives the decoder: pixel x starts
\* LoadStride floats per sample after the pixels before it.
LoadPixelPtr(row, x) == SamplesBefore(row, x) * LoadStride

RECURSIVE ReadSamples(_, _, _, _, _, _)
\* readPixels(y, y) for input i into a freshly allocated row: sample s of pixel x
\* goes to LoadPixelPtr(row, x) + s * LoadStride, six floats.
ReadSamples(row, mem, i, y, x, s) ==
    IF x >= row.width THEN mem
    ELSE IF s >= getSampleCount(row, x) THEN ReadSamples(row, mem, i, y, x + 1, 0)
    ELSE ReadSamples(row,
                     WriteAt(mem, LoadPixelPtr(row, x) + s * LoadStride,
                             SourceSample(i, y, x, s)),
                     i, y, x, s + 1)

\* One iteration of the loader's file loop: row.allocate(width, tempCounts), the
\* frame buffer set-up and readPixels.
LoadRow(row, i, y) ==
    LET a == allocateCounts(row, width, getSampleCountsForRow(i, y))
    IN  [a EXCEPT !.mem = ReadSamples(a, a.mem, i, y, 0, 0)]

\* readPixels writes past the end of the block it was given
LoadOverruns(row) == row.totalSamplesInRow * LoadStride > Len(row.mem)

\* ------------------------------------------------------- mergePixelsDirect
\* RawSample::operator<
RawLess(a, b) == IF a.z # b.z THEN a.z < b.z ELSE a.z_back < b.z_back

\* the samples of one input at one pixel, as mergePixelsDirect gathers them:
\* five floats per sample, z_back taken from Z
GatherOne(inputRow, x) ==
    LET data == getPixelData(inputRow, x)
    IN  [s \in 1 .. getSampleCount(inputRow, x) |->
            LET sData == data + (s - 1) * RowStride
            IN  [r |-> Rd(inputRow, sData), g |-> Rd(inputRow, sData + 1),
                 b |-> Rd(inputRow, sData + 2), a |-> Rd(inputRow, sData + 3),
                 z |-> Rd(inputRow, sData + 4), z_back |-> Rd(inputRow, sData + 4)]]

RECURSIVE InsertSorted(_, _)
InsertSorted(sorted, e) ==
    IF sorted = <<>> THEN <<e>>
    ELSE IF RawLess(e, Head(sorted)) THEN <<e>> \o sorted
    ELSE <<Head(sorted)>> \o InsertSorted(Tail(sorted), e)

RECURSIVE SortSamples(_)
\* std::sort on the staging vector (insertion sort: at most 16 samples)
SortSamples(staging) ==
    IF staging = <<>> THEN <<>>
    ELSE InsertSorted(SortSamples(SubSeq(staging, 1, Len(staging) - 1)),
                      staging[Len(staging)])

\* the staging vector of pixel x after the sort
Staging(inputRows, x) ==
    SortSamples(Flat([k \in 1 .. Len(inputRows) |-> GatherOne(inputRows[k], x)]))

\* the floats mergePixelsDirect writes at outPtr for the sorted samples
StagingFloats(staging) ==
    Flat([s \in 1 .. Len(staging) |->
            <<staging[s].r, staging[s].g, staging[s].b, staging[s].a, staging[s].z>>])

\* outputRow.sampleCounts[x] = n; past the end of the vector nothing is stored
SetCount(counts, x, n) ==
    [k \in 1 .. Len(counts) |-> IF k = x + 1 THEN n ELSE counts[k]]

\* mergePixelsDirect(x, y, pixelDataPtrs, pixelSampleCounts, outputRow)
mergePixelsDirect(x, inputRows, outputRow) ==
    LET staging == Staging(inputRows, x)
    IN  IF staging = <<>>
        THEN [outputRow EXCEPT !.sampleCounts = SetCount(@, x, 0)]
        ELSE [outputRow EXCEPT
                !.mem = WriteAt(outputRow.mem, getPixelData(outputRow, x),
                                StagingFloats(staging)),
                !.sampleCounts = SetCount(@, x, Len(staging))]

\* mergePixelsDirect writes through a null allSamples
MergeWritesNull(x, inputRows, outputRow) ==
    Staging(inputRows, x) # <<>> /\ outputRow.isNull

\* mergePixelsDirect writes past the end of the merged block
MergeOverruns(x, inputRows, outputRow) ==
    /\ ~outputRow.isNull
    /\ getPixelData(outputRow, x) + Len(Staging(inputRows, x)) * RowStride
         > Len(outputRow.mem)

\* ---------------------------------- mergePixelsDirect, six floats per sample
\* floats per sample in the mergePixelsDirect of part_001 (R,G,B,A,Z,ZBack)
MergeStride6 == 6

\* the samples of one input at one pixel, as the six-float mergePixelsDirect
\* gathers them: z_back is read from the sixth float
GatherOne6(inputRow, x) ==
    LET data == getPixelData(inputRow, x)
    IN  [s \in 1 .. getSampleCount(inputRow, x) |->
            LET sData == data + (s - 1) * MergeStride6
            IN  [r |-> Rd(inputRow, sData), g |-> Rd(inputRow, sData + 1),
                 b |-> Rd(inputRow, sData + 2), a |-> Rd(inputRow, sData + 3),
                 z |-> Rd(inputRow, sData + 4), z_back |-> Rd(inputRow, sData + 5)]]

\* the gathering reads past the end of an input block
GatherOverruns6(inputRows, x) ==
    \E k \in 1 .. Len(inputRows) :
        getPixelData(inputRows[k], x) + getSampleCount(inputRows[k], x) * MergeStride6
            > Len(inputRows[k].mem)

\* the staging vector of pixel x after the sort
Staging6(inputRows, x) ==
    SortSamples(Flat([k \in 1 .. Len(inputRows) |-> GatherOne6(inputRows[k], x)]))

\* the floats the six-float mergePixelsDirect writes at outPtr
StagingFloats6(staging) ==
    Flat([s \in 1 .. Len(staging) |->
            <<staging[s].r, staging[s].g, staging[s].b, staging[s].a, staging[s].z,
              staging[s].z_back>>])

\* mergePixelsDirect of part_001
mergePixelsDirect6(x, inputRows, outputRow) ==
    LET staging == Staging6(inputRows, x)
    IN  IF staging = <<>>
        THEN [outputRow EXCEPT !.sampleCounts = SetCount(@, x, 0)]
        ELSE [outputRow EXCEPT
                !.mem = WriteAt(outputRow.mem, getPixelData(outputRow, x),
                                StagingFloats6(staging)),
                !.sampleCounts = SetCount(@, x, Len(staging))]

MergeWritesNull6(x, inputRows, outputRow) ==
    Staging6(inputRows, x) # <<>> /\ outputRow.isNull

MergeOverruns6(x, inputRows, outputRow) ==
    /\ ~outputRow.isNull
    /\ getPixelData(outputRow, x) + Len(Staging6(inputRows, x)) * MergeStride6
         > Len(outputRow.mem)

\* the samples of pixel x of a merged row as the six-float mergePixelsDirect
\* laid them out, <<r, g, b, a, z, z_back>> each
MergedSamples6(deepRow, x) ==
    [s \in 1 .. getSampleCount(deepRow, x) |->
        [c \in 1 .. MergeStride6 |->
            Rd(deepRow, getPixelData(deepRow, x) + (s - 1) * MergeStride6 + c - 1)]]

\* -------------------------------------------------------------- flattenRow
\* the weight of a sample as it would be if the alpha already accumulated were
\* not taken into account
WeightPlain(a, accA) == a

\* float weight = a * (1.0f - accA)
Weight(a, accA) == FMul(a, Scale - accA)

\* the early-out test as it would be if it never held
OpaqueNever(accA) == FALSE

\* accA >= 0.999f
Opaque(accA) == accA >= AlphaCut

\* the skip over the rest of the pixel as it would be if it were left out
BreakSkipNone(numSamples, s) == 0

\* samplePtr += (numSamples - 1 - s) * 5, before the break
BreakSkip(numSamples, s) == (numSamples - 1 - s) * RowStride

RECURSIVE FlattenSamples(_, _, _, _, _)
\* the sample loop of one pixel: <<accR, accG, accB, accA, samplePtr>> at its end
FlattenSamples(deepRow, samplePtr, s, numSamples, acc) ==
    IF s >= numSamples THEN acc \o <<samplePtr>>
    ELSE LET r == Rd(deepRow, samplePtr)
             g == Rd(deepRow, samplePtr + 1)
             b == Rd(deepRow, samplePtr + 2)
             a == Rd(deepRow, samplePtr + 3)
             weight == Weight(a, acc[4])
             acc2 == <<acc[1] + FMul(r, weight), acc[2] + FMul(g, weight),
                       acc[3] + FMul(b, weight), acc[4] + weight>>
         IN  IF Opaque(acc2[4])
             THEN acc2 \o <<samplePtr + RowStride + BreakSkip(numSamples, s)>>
             ELSE FlattenSamples(deepRow, samplePtr + RowStride, s + 1, numSamples, acc2)

RECURSIVE FlattenPixels(_, _, _, _)
FlattenPixels(deepRow, rgbOutput, x, samplePtr) ==
    IF x >= deepRow.width THEN rgbOutput
    ELSE LET p == FlattenSamples(deepRow, samplePtr, 0, getSampleCount(deepRow, x),
                                 <<0, 0, 0, 0>>)
         IN  FlattenPixels(deepRow,
                           [rgbOutput EXCEPT ![x * 3 + 1] = p[1], ![x * 3 + 2] = p[2],
                                             ![x * 3 + 3] = p[3]],
                           x + 1, p[5])

\* flattenRow(deepRow, rgbOutput)
flattenRow(deepRow, rgbOutput) == FlattenPixels(deepRow, rgbOutput, 0, 0)

\* the accumulators <<accR, accG, accB, accA>> flattenRow has for pixel x when its
\* sample loop ends
PixelOver(deepRow, x) ==
    SubSeq(FlattenSamples(deepRow, getPixelData(deepRow, x), 0,
                          getSampleCount(deepRow, x), <<0, 0, 0, 0>>), 1, 4)

\* the samples of pixel x of a merged row, <<r, g, b, a, z>> each, as flattenRow
\* steps through them
MergedSamples(deepRow, x) ==
    [s \in 1 .. getSampleCount(deepRow, x) |->
        [c \in 1 .. RowStride |->
            Rd(deepRow, getPixelData(deepRow, x) + (s - 1) * RowStride + c - 1)]]

\* std::vector<float> rowRGB(width * 4)
ZeroRow == [k \in 1 .. (width * 4) |-> 0]

\* flattenRow is not being stepped through on its own
FlattenIdle ==
    /\ fr_deepRow = NullRow /\ fr_rgbOutput = <<>>
    /\ fr_x = 0 /\ fr_s = 0 /\ fr_acc = <<0, 0, 0, 0>> /\ fr_samplePtr = 0
    /\ fr_pc = "idle"

\* ------------------------------------------------------------ processAllEXR
Init ==
    /\ height \in 1 .. MaxHeight
    /\ numFiles \in 1 .. MaxFiles
    /\ pattern \in Patterns
    \* the command lines tried: no option, --mod-offset with an offset for input 0,
    \* or the default merge threshold
    /\ \/ /\ inputZOffsets = [i \in {} |-> 0]
          /\ mergeThreshold \in {0, DefaultThreshold}
       \/ /\ inputZOffsets = [i \in 0 .. numFiles |-> IF i = 0 THEN ZOffset ELSE 0]
          /\ mergeThreshold = 0
    \* main has been through parseArgs and its loop over the files, which are all
    \* deep images of the same size; the command line is not looked at again
    /\ argv = <<>> /\ arg_i = 0
    /\ opts = [inputFiles |-> [i \in 0 .. (numFiles - 1) |-> "a.exr"],
               outputPrefix |-> "out", modOffset |-> inputZOffsets # <<>>,
               showHelp |-> FALSE, verbose |-> FALSE, deepOutput |-> FALSE,
               flatOutput |-> TRUE, pngOutput |-> TRUE]
    /\ fileKind = [i \in 0 .. (numFiles - 1) |-> "deep"]
    /\ main_pc = "threads"
    /\ exitCode = NoExit
    /\ artefacts = {}
    /\ failedRows = {}
    /\ FlattenIdle
    /\ rowStatus = [y \in 0 .. (height - 1) |-> EMPTY]
    /\ m_inputBuffer = [i \in 0 .. (numFiles - 1) |-> [s \in Slots |-> NullRow]]
    /\ m_mergedBuffer = [s \in Slots |-> NullRow]
    /\ finalImage = [k \in 1 .. (width * height * 4) |-> 0]
    /\ ld_pc = "wait" /\ load_y = 0 /\ load_i = 0 /\ yStart = 0
    /\ mg_pc = "wait" /\ merge_y = 0 /\ merge_x = 0
    /\ wr_pc = "wait" /\ write_y = 0
    /\ returned = FALSE
    /\ crashed = FALSE
    /\ liveBlocks = 0
    /\ nstores = [y \in 0 .. (height - 1) |-> 0]
    /\ rasterWrites = [y \in 0 .. (height - 1) |-> 0]

inputs == <<height, numFiles, pattern, inputZOffsets, mergeThreshold>>
flattenVars == <<fr_deepRow, fr_rgbOutput, fr_x, fr_s, fr_acc, fr_samplePtr, fr_pc>>
mainVars ==
    <<argv, arg_i, opts, fileKind, main_pc, exitCode, artefacts, failedRows, flattenVars>>
loaderVars == <<ld_pc, load_y, load_i, yStart>>
mergerVars == <<mg_pc, merge_y, merge_x>>
writerVars == <<wr_pc, write_y>>

\* rowStatus[y].store(v)
StoreStatus(y, v) ==
    /\ rowStatus' = [rowStatus EXCEPT ![y] = v]
    /\ nstores' = [nstores EXCEPT ![y] = @ + 1]

\* ---- loader_worker (per row)
\* the throttle as it would be if it waited for Merged only
LoaderThrottleMerged(y) == y >= windowSize => rowStatus[y - windowSize] >= MERGED
\* the throttle as it would be if it waited for Loaded only
LoaderThrottleLoaded(y) == y >= windowSize => rowStatus[y - windowSize] >= LOADED
\* the loader with no throttle at all
LoaderThrottleNone(y) == TRUE

\* the loader's throttle: the loop "while (rowStatus[load_y - windowSize] < FLATTENED)"
\* has been left
LoaderThrottle(y) == y >= windowSize => rowStatus[y - windowSize] >= FLATTENED

LoaderWait ==
    /\ ~crashed /\ ld_pc = "wait"
    /\ LoaderThrottle(load_y)
    /\ ld_pc' = "load" /\ load_i' = 0
    /\ UNCHANGED <<inputs, mainVars, rowStatus, m_inputBuffer, m_mergedBuffer, finalImage, load_y,
                   yStart, mergerVars, writerVars, returned, crashed, liveBlocks, nstores,
                   rasterWrites>>

\* allocate and read row y of input i into m_inputBuffer[i][y % windowSize]; where
\* readPixels runs over the end of the block the process either survives or dies
LoadInto(i, y) ==
    LET slot == y % windowSize
        row == LoadRow(m_inputBuffer[i][slot], i, y)
    IN  \/ /\ m_inputBuffer' = [m_inputBuffer EXCEPT ![i][slot] = row]
           /\ liveBlocks' = liveBlocks + allocateCountsBlocks(m_inputBuffer[i][slot])
           /\ crashed' = crashed
        \/ /\ LoadOverruns(row)
           /\ crashed' = TRUE
           /\ UNCHANGED <<m_inputBuffer, liveBlocks>>

LoaderLoad ==
    /\ ~crashed /\ ld_pc = "load"
    /\ ~ReadThrows(load_i, load_y)
    /\ LoadInto(load_i, load_y)
    /\ load_i' = load_i + 1
    /\ ld_pc' = IF load_i + 1 < numFiles THEN "load" ELSE "publish"
    /\ UNCHANGED <<inputs, mainVars, rowStatus, m_mergedBuffer, finalImage, load_y, yStart,
                   mergerVars, writerVars, returned, nstores, rasterWrites>>

LoaderPublish ==
    /\ ~crashed /\ ld_pc = "publish"
    /\ StoreStatus(load_y, LOADED)
    /\ load_y' = load_y + 1
    /\ ld_pc' = IF load_y + 1 < height THEN "wait" ELSE "done"
    /\ UNCHANGED <<inputs, mainVars, m_inputBuffer, m_mergedBuffer, finalImage, load_i, yStart,
                   mergerVars, writerVars, returned, crashed, liveBlocks, rasterWrites>>

\* ---- loader_worker (chunked)
yEnd == Min(yStart + chunkSize - 1, height - 1)

\* the chunked loader's throttle looks at the first row of the chunk only
ChunkThrottle(ys) == ys >= windowSize => rowStatus[ys - windowSize] >= FLATTENED

ChunkLoaderWait ==
    /\ ~crashed /\ ld_pc = "wait"
    /\ ChunkThrottle(yStart)
    /\ ld_pc' = "load" /\ load_i' = 0 /\ load_y' = yStart
    /\ UNCHANGED <<inputs, mainVars, rowStatus, m_inputBuffer, m_mergedBuffer, finalImage, yStart,
                   mergerVars, writerVars, returned, crashed, liveBlocks, nstores,
                   rasterWrites>>

\* for each file i, for each row y of the chunk
ChunkLoaderLoad ==
    /\ ~crashed /\ ld_pc = "load"
    /\ LoadInto(load_i, load_y)
    /\ IF load_y < yEnd
       THEN load_y' = load_y + 1 /\ load_i' = load_i /\ ld_pc' = "load"
       ELSE /\ load_y' = yStart
            /\ load_i' = load_i + 1
            /\ ld_pc' = IF load_i + 1 < numFiles THEN "load" ELSE "publish"
    /\ UNCHANGED <<inputs, mainVars, rowStatus, m_mergedBuffer, finalImage, yStart, mergerVars,
                   writerVars, returned, nstores, rasterWrites>>

\* mark the rows of the chunk Loaded, in row order
ChunkLoaderPublish ==
    /\ ~crashed /\ ld_pc = "publish"
    /\ StoreStatus(load_y, LOADED)
    /\ load_y' = load_y + 1
    /\ IF load_y < yEnd
       THEN ld_pc' = "publish" /\ yStart' = yStart
       ELSE /\ yStart' = yStart + chunkSize
            /\ ld_pc' = IF yStart + chunkSize < height THEN "wait" ELSE "done"
    /\ UNCHANGED <<inputs, mainVars, m_inputBuffer, m_mergedBuffer, finalImage, load_i, mergerVars,
                   writerVars, returned, crashed, liveBlocks, rasterWrites>>

\* ---- merger_worker
\* the merger as it would be if it did not wait for the loader
MergerReadyNone(y) == TRUE

\* the loop "while (rowStatus[merge_y] < LOADED)" has been left
MergerReady(y) == rowStatus[y] >= LOADED

MergerWait ==
    /\ ~crashed /\ mg_pc = "wait"
    /\ MergerReady(merge_y)
    /\ mg_pc' = "alloc"
    /\ UNCHANGED <<inputs, mainVars, rowStatus, m_inputBuffer, m_mergedBuffer, finalImage,
                   loaderVars, merge_y, merge_x, writerVars, returned, crashed,
                   liveBlocks, nstores, rasterWrites>>

\* totalPossibleSamplesInRow: the sum of the inputs' totalSamplesInRow, times 1
totalPossibleSamplesInRow(slot) ==
    SumSeq([k \in 1 .. numFiles |-> m_inputBuffer[k - 1][slot].totalSamplesInRow]) * 1

MergerAlloc ==
    /\ ~crashed /\ mg_pc = "alloc"
    /\ LET slot == merge_y % windowSize
           total == totalPossibleSamplesInRow(slot)
       IN  /\ m_mergedBuffer' =
                [m_mergedBuffer EXCEPT ![slot] = allocateMax(@, width, total)]
           /\ liveBlocks' = liveBlocks + allocateMaxBlocks(m_mergedBuffer[slot], total)
    /\ mg_pc' = "merge" /\ merge_x' = 0
    /\ UNCHANGED <<inputs, mainVars, rowStatus, m_inputBuffer, finalImage, loaderVars, merge_y,
                   writerVars, returned, crashed, nstores, rasterWrites>>

\* the input rows of a slot, as the pixel loop gathers them
InputRows(slot) == [k \in 1 .. numFiles |-> m_inputBuffer[k - 1][slot]]

\* one iteration of the pixel loop.  A write through a null allSamples kills
\* the process; a write past the end of the block, or an index past the end of
\* a sampleCounts vector, either does or does not.
MergerPixel ==
    /\ ~crashed /\ mg_pc = "merge"
    /\ LET slot == merge_y % windowSize
           ins == InputRows(slot)
           out == m_mergedBuffer[slot]
       IN  \/ /\ ~MergeWritesNull(merge_x, ins, out)
              /\ m_mergedBuffer' =
                   [m_mergedBuffer EXCEPT ![slot] = mergePixelsDirect(merge_x, ins, out)]
              /\ crashed' = crashed
           \/ /\ \/ MergeWritesNull(merge_x, ins, out)
                 \/ MergeOverruns(merge_x, ins, out)
                 \/ CountsOverrun(out)
              /\ crashed' = TRUE
              /\ UNCHANGED m_mergedBuffer
    /\ merge_x' = merge_x + 1
    /\ mg_pc' = IF merge_x + 1 < width THEN "merge" ELSE "publish"
    /\ UNCHANGED <<inputs, mainVars, rowStatus, m_inputBuffer, finalImage, loaderVars, merge_y,
                   writerVars, returned, liveBlocks, nstores, rasterWrites>>

\* one iteration of the pixel loop with the mergePixelsDirect of part_001
MergerPixel6 ==
    /\ ~crashed /\ mg_pc = "merge"
    /\ LET slot == merge_y % windowSize
           ins == InputRows(slot)
           out == m_mergedBuffer[slot]
       IN  \/ /\ ~MergeWritesNull6(merge_x, ins, out)
              /\ m_mergedBuffer' =
                   [m_mergedBuffer EXCEPT ![slot] = mergePixelsDirect6(merge_x, ins, out)]
              /\ crashed' = crashed
           \/ /\ \/ MergeWritesNull6(merge_x, ins, out)
                 \/ MergeOverruns6(merge_x, ins, out)
                 \/ GatherOverruns6(ins, merge_x)
                 \/ CountsOverrun(out)
              /\ crashed' = TRUE
              /\ UNCHANGED m_mergedBuffer
    /\ merge_x' = merge_x + 1
    /\ mg_pc' = IF merge_x + 1 < width THEN "merge" ELSE "publish"
    /\ UNCHANGED <<inputs, mainVars, rowStatus, m_inputBuffer, finalImage, loaderVars, merge_y,
                   writerVars, returned, liveBlocks, nstores, rasterWrites>>

MergerPublish ==
    /\ ~crashed /\ mg_pc = "publish"
    /\ StoreStatus(merge_y, MERGED)
    /\ merge_y' = merge_y + 1
    /\ mg_pc' = IF merge_y + 1 < height THEN "wait" ELSE "done"
    /\ UNCHANGED <<inputs, mainVars, m_inputBuffer, m_mergedBuffer, finalImage, loaderVars,
                   merge_x, writerVars, returned, crashed, liveBlocks, rasterWrites>>

\* ---- writer_worker (the flattener)
\* the flattener as it would be if it did not wait for the merger
WriterReadyNone(y) == TRUE

\* the loop "while (rowStatus[write_y] < MERGED)" has been left
WriterReady(y) == rowStatus[y] >= MERGED

WriterWait ==
    /\ ~crashed /\ wr_pc = "wait"
    /\ WriterReady(write_y)
    /\ wr_pc' = "flatten"
    /\ UNCHANGED <<inputs, mainVars, rowStatus, m_inputBuffer, m_mergedBuffer, finalImage,
                   loaderVars, mergerVars, write_y, returned, crashed, liveBlocks,
                   nstores, rasterWrites>>

\* the copy as it would be if it were placed by ring slot instead of by row
CopyOffsetSlot(y) == (y % windowSize) * width * 4

\* finalImage.begin() + (write_y * width * 4)
CopyOffset(y) == y * width * 4

\* whether a copy of width * 4 floats to offset off writes into raster row y
CopyTouchesRow(off, y) == off < (y + 1) * width * 4 /\ off + width * 4 > y * width * 4

\* flattenRow reads samples that lie outside the block allSamples points to
FlattenOverruns(deepRow) ==
    SumSeq(deepRow.sampleCounts) * RowStride > Len(deepRow.mem)

\* flattenRow into rowRGB, then std::copy of rowRGB into finalImage.  Where
\* flattenRow reads outside the merged block or indexes sampleCounts past its
\* end, the process either survives it or dies.
WriterFlatten ==
    /\ ~crashed /\ wr_pc = "flatten"
    /\ LET slot == write_y % windowSize
           rowRGB == flattenRow(m_mergedBuffer[slot], ZeroRow)
       IN  \/ /\ finalImage' = WriteAt(finalImage, CopyOffset(write_y), rowRGB)
              /\ rasterWrites' =
                   [y \in 0 .. (height - 1) |->
                       rasterWrites[y]
                         + (IF CopyTouchesRow(CopyOffset(write_y), y) THEN 1 ELSE 0)]
              /\ crashed' = crashed
           \/ /\ \/ FlattenOverruns(m_mergedBuffer[slot])
                 \/ CountsOverrun(m_mergedBuffer[slot])
              /\ crashed' = TRUE
              /\ UNCHANGED <<finalImage, rasterWrites>>
    /\ wr_pc' = "clear"
    /\ UNCHANGED <<inputs, mainVars, rowStatus, m_inputBuffer, m_mergedBuffer, loaderVars,
                   mergerVars, write_y, returned, liveBlocks, nstores>>

\* const_cast<DeepRow&>(deepRow).clear(): the merged slot, and nothing else
WriterClear ==
    /\ ~crashed /\ wr_pc = "clear"
    /\ LET slot == write_y % windowSize
       IN  /\ m_mergedBuffer' = [m_mergedBuffer EXCEPT ![slot] = clear(@)]
           /\ liveBlocks' = liveBlocks + clearBlocks(m_mergedBuffer[slot])
    /\ wr_pc' = "publish"
    /\ UNCHANGED <<inputs, mainVars, rowStatus, m_inputBuffer, finalImage, loaderVars, mergerVars,
                   write_y, returned, crashed, nstores, rasterWrites>>

\* the writer's last step, storing status v
WriterPublishAs(v) ==
    /\ ~crashed /\ wr_pc = "publish"
    /\ StoreStatus(write_y, v)
    /\ write_y' = write_y + 1
    /\ wr_pc' = IF write_y + 1 < height THEN "wait" ELSE "done"
    /\ UNCHANGED <<inputs, mainVars, m_inputBuffer, m_mergedBuffer, finalImage, loaderVars,
                   mergerVars, returned, crashed, liveBlocks, rasterWrites>>

\* the store as the comment beside it describes it ("Set back to Loaded")
WriterPublishLoaded == WriterPublishAs(LOADED)

\* rowStatus[write_y].store(FLATTENED); write_y++
WriterPublish == WriterPublishAs(FLATTENED)

\* ---- the driver: join the three threads, return finalImage
DriverReturn ==
    /\ ~crashed /\ ~returned
    /\ ld_pc = "done" /\ mg_pc = "done" /\ wr_pc = "done"
    /\ returned' = TRUE
    /\ UNCHANGED <<inputs, mainVars, rowStatus, m_inputBuffer, m_mergedBuffer, finalImage,
                   loaderVars, mergerVars, writerVars, crashed, liveBlocks, nstores,
                   rasterWrites>>

\* ------------------------------------------------- std::vector, indexed from 0
EmptyVec == [k \in {} |-> 0]
size(v) == Cardinality(DOMAIN v)
push_back(v, e) == [k \in 0 .. size(v) |-> IF k < size(v) THEN v[k] ELSE e]
pop_back(v) == [k \in 0 .. (size(v) - 2) |-> v[k]]
back(v) == v[size(v) - 1]

\* ---------------------------------------------------------------- parseArgs
\* The command line words tried.
Tokens ==
    {"a.exr", "out", "0.5", "-2", "--mod-offset", "--merge-threshold", "--help",
     "--no-png-output", "--bogus"}

\* arg[0] == '-'
StartsWithDash(arg) == arg \notin {"a.exr", "out", "0.5"}

\* isFloat(s): the whole word reads as a float
isFloat(s) == s \in {"0.5", "-2"}

\* std::stof(s) throws: no leading part of the word is a number
stofThrows(s) == s \notin {"0.5", "-2"}

\* std::stof(s), in units of 1/Scale
stof(s) == IF s = "0.5" THEN 500 ELSE 0 - 2000

\* The Options main starts with (deep output off, flat output and PNG on).
DefaultOptions ==
    [inputFiles |-> EmptyVec, outputPrefix |-> "", modOffset |-> FALSE,
     showHelp |-> FALSE, verbose |-> FALSE, deepOutput |-> FALSE,
     flatOutput |-> TRUE, pngOutput |-> TRUE]

\* the words that switch one field of Options
FlagWords ==
    {"--verbose", "-v", "--deep-output", "--flat-output", "--no-flat-output",
     "--png-output", "--no-png-output", "--mod-offset"}

SetFlag(o, arg) ==
    CASE arg \in {"--verbose", "-v"} -> [o EXCEPT !.verbose = TRUE]
      [] arg = "--deep-output" -> [o EXCEPT !.deepOutput = TRUE]
      [] arg = "--flat-output" -> [o EXCEPT !.flatOutput = TRUE]
      [] arg = "--no-flat-output" -> [o EXCEPT !.flatOutput = FALSE]
      [] arg = "--png-output" -> [o EXCEPT !.pngOutput = TRUE]
      [] arg = "--no-png-output" -> [o EXCEPT !.pngOutput = FALSE]
      [] arg = "--mod-offset" -> [o EXCEPT !.modOffset = TRUE]

\* the variables parseArgs and main do not touch before the pipeline is set up
pipelineVars ==
    <<height, numFiles, pattern, rowStatus, m_inputBuffer, m_mergedBuffer, finalImage,
      loaderVars, mergerVars, writerVars, returned, crashed, fileKind, artefacts,
      failedRows, flattenVars, liveBlocks, nstores, rasterWrites>>

\* the test of the positional count as it would be if it asked for one
\* positional argument only
TooFewPositionalsOne(files) == size(files) < 1

\* opts.inputFiles.size() < 2
TooFewPositionals(files) == size(files) < 2

\* the test of the place of a z offset as it would be if it were left out
OffsetMisplacedNever(files, offsets) == FALSE

\* opts.inputFiles.size() != opts.inputZOffsets.size() + 1
OffsetMisplaced(files, offsets) == size(files) # size(offsets) + 1

\* parseArgs returns v
ParseReturn(v) ==
    /\ main_pc' = IF v THEN "returnedTrue" ELSE "returnedFalse"
    /\ arg_i' = arg_i

\* if (argc < 2) return false
ParseNoArgs ==
    /\ main_pc = "parseArgs" /\ Len(argv) = 0
    /\ ParseReturn(FALSE)
    /\ UNCHANGED <<argv, opts, inputZOffsets, mergeThreshold, exitCode, pipelineVars>>

\* one iteration of the loop over argv
ParseArg ==
    /\ main_pc = "parseArgs" /\ arg_i <= Len(argv)
    /\ LET arg == argv[arg_i]
       IN  CASE arg \in {"--help", "-h"} ->
                  /\ opts' = [opts EXCEPT !.showHelp = TRUE]
                  /\ ParseReturn(TRUE)
                  /\ UNCHANGED <<inputZOffsets, mergeThreshold>>
             [] arg \in FlagWords ->
                  /\ opts' = SetFlag(opts, arg)
                  /\ arg_i' = arg_i + 1
                  /\ UNCHANGED <<main_pc, inputZOffsets, mergeThreshold>>
             [] arg = "--merge-threshold" ->
                  IF arg_i + 1 > Len(argv) \/ stofThrows(argv[arg_i + 1])
                  THEN /\ ParseReturn(FALSE)
                       /\ UNCHANGED <<opts, inputZOffsets, mergeThreshold>>
                  ELSE /\ mergeThreshold' = stof(argv[arg_i + 1])
                       /\ arg_i' = arg_i + 2
                       /\ UNCHANGED <<main_pc, opts, inputZOffsets>>
             [] OTHER ->
                  IF StartsWithDash(arg) /\ ~isFloat(arg)
                  THEN /\ ParseReturn(FALSE)
                       /\ UNCHANGED <<opts, inputZOffsets, mergeThreshold>>
                  ELSE IF opts.modOffset /\ isFloat(arg)
                  THEN IF OffsetMisplaced(opts.inputFiles, inputZOffsets)
                       THEN /\ ParseReturn(FALSE)
                            /\ UNCHANGED <<opts, inputZOffsets, mergeThreshold>>
                       ELSE /\ inputZOffsets' = push_back(inputZOffsets, stof(arg))
                            /\ arg_i' = arg_i + 1
                            /\ UNCHANGED <<main_pc, opts, mergeThreshold>>
                  ELSE /\ inputZOffsets' =
                            IF opts.modOffset
                                 /\ size(opts.inputFiles) = size(inputZOffsets) + 1
                            THEN push_back(inputZOffsets, 0)
                            ELSE inputZOffsets
                       /\ opts' = [opts EXCEPT !.inputFiles = push_back(@, arg)]
                       /\ arg_i' = arg_i + 1
                       /\ UNCHANGED <<main_pc, mergeThreshold>>
    /\ UNCHANGED <<argv, exitCode, pipelineVars>>

\* the code after the loop: the offset of the last file, the count of the
\* positional arguments, the output prefix
ParseEnd ==
    /\ main_pc = "parseArgs" /\ Len(argv) > 0 /\ arg_i > Len(argv)
    /\ inputZOffsets' =
          IF opts.modOffset /\ size(opts.inputFiles) # size(inputZOffsets)
          THEN push_back(inputZOffsets, 0)
          ELSE inputZOffsets
    /\ IF TooFewPositionals(opts.inputFiles)
       THEN ParseReturn(FALSE) /\ opts' = opts
       ELSE /\ opts' = [opts EXCEPT !.outputPrefix = back(opts.inputFiles),
                                    !.inputFiles = pop_back(opts.inputFiles)]
            /\ ParseReturn(TRUE)
    /\ UNCHANGED <<argv, mergeThreshold, exitCode, pipelineVars>>

parseArgs == ParseNoArgs \/ ParseArg \/ ParseEnd

\* --------------------------------------------------------------------- main
\* if (!parseArgs(argc, argv, opts)) { printUsage(argv[0]); return 1; }
MainUsage ==
    /\ main_pc = "returnedFalse"
    /\ main_pc' = "exit" /\ exitCode' = 1
    /\ UNCHANGED <<argv, arg_i, opts, inputZOffsets, mergeThreshold, pipelineVars>>

\* if (opts.showHelp) { printUsage(argv[0]); return 0; }
MainHelp ==
    /\ main_pc = "returnedTrue" /\ opts.showHelp
    /\ main_pc' = "exit" /\ exitCode' = 0
    /\ UNCHANGED <<argv, arg_i, opts, inputZOffsets, mergeThreshold, pipelineVars>>

\* main goes on to its loop over the input files
MainBegin ==
    /\ main_pc = "returnedTrue" /\ ~opts.showHelp
    /\ main_pc' = "isDeepEXR"
    /\ UNCHANGED <<argv, arg_i, opts, inputZOffsets, mergeThreshold, exitCode,
                   pipelineVars>>

\* the loop over opts.inputFiles in main: the first file that is not a deep
\* image ends the program
MainIsDeepEXR ==
    /\ main_pc = "isDeepEXR"
    /\ IF \A i \in Files : isDeepEXR(i)
       THEN main_pc' = "processAllEXR" /\ exitCode' = exitCode
       ELSE main_pc' = "exit" /\ exitCode' = 1
    /\ UNCHANGED <<argv, arg_i, opts, inputZOffsets, mergeThreshold, pipelineVars>>

\* the preload loop of processAllEXR goes through every file without returning
PreloadPasses == \A i \in Files : isDeepEXR(i) /\ Opens(i) /\ DimsMatch(i)

\* processAllEXR up to the start of the three threads: the preload loop, which
\* returns {} at the first file it rejects, then rowStatus, the two rings and
\* finalImage are created and the threads are started
processAllEXRBegin ==
    /\ main_pc = "processAllEXR"
    /\ IF PreloadPasses
       THEN /\ main_pc' = "threads"
            /\ rowStatus' = [y \in Rows |-> EMPTY]
            /\ m_inputBuffer' = [i \in Files |-> [s \in Slots |-> NullRow]]
            /\ m_mergedBuffer' = [s \in Slots |-> NullRow]
            /\ finalImage' = [k \in 1 .. (width * height * 4) |-> 0]
            /\ ld_pc' = "wait" /\ mg_pc' = "wait" /\ wr_pc' = "wait"
            /\ nstores' = [y \in Rows |-> 0]
            /\ rasterWrites' = [y \in Rows |-> 0]
       ELSE /\ main_pc' = "outputs"
            /\ finalImage' = <<>>
            /\ UNCHANGED <<rowStatus, m_inputBuffer, m_mergedBuffer, ld_pc, mg_pc, wr_pc,
                           nstores, rasterWrites>>
    /\ UNCHANGED <<inputs, argv, arg_i, opts, fileKind, exitCode, artefacts, failedRows,
                   flattenVars, load_y, load_i, yStart, merge_y, merge_x, write_y,
                   returned, crashed, liveBlocks>>

\* the loader as it would be if it caught the exception of a scanline read and
\* went on to the next file
LoaderReadSwallowed ==
    /\ ~crashed /\ ld_pc = "load"
    /\ ReadThrows(load_i, load_y)
    /\ failedRows' = failedRows \cup {load_y}
    /\ load_i' = load_i + 1
    /\ ld_pc' = IF load_i + 1 < numFiles THEN "load" ELSE "publish"
    /\ UNCHANGED <<inputs, argv, arg_i, opts, fileKind, main_pc, exitCode, artefacts,
                   flattenVars, rowStatus, m_inputBuffer, m_mergedBuffer, finalImage, load_y, yStart,
                   mergerVars, writerVars, returned, crashed, liveBlocks, nstores,
                   rasterWrites>>

\* a scanline read of the loader throws: nothing in the thread catches it, and
\* the process is terminated
LoaderReadFails ==
    /\ ~crashed /\ ld_pc = "load"
    /\ ReadThrows(load_i, load_y)
    /\ failedRows' = failedRows \cup {load_y}
    /\ crashed' = TRUE
    /\ UNCHANGED <<inputs, argv, arg_i, opts, fileKind, main_pc, exitCode, artefacts,
                   flattenVars, rowStatus, m_inputBuffer, m_mergedBuffer, finalImage, loaderVars,
                   mergerVars, writerVars, returned, liveBlocks, nstores, rasterWrites>>

\* the floats writePNG(finalImage, 16, 16, pngPath) reads
PngFloats == PngWidth * PngHeight * 4

\* processAllEXR has returned to main
ProcessAllEXRReturned == main_pc = "outputs" \/ (main_pc = "threads" /\ returned)

\* the rest of main: the PNG is written if it was asked for, by
\* writePNG(finalImage, 16, 16, pngPath), and main returns 0.
\* Where the raster is shorter than what writePNG reads, the process survives the
\* read or dies of it.
MainOutputs ==
    /\ ~crashed /\ ProcessAllEXRReturned
    /\ \/ /\ artefacts' =
                IF opts.pngOutput
                THEN artefacts \cup {[name |-> "png", image |-> finalImage,
                                      width |-> PngWidth, height |-> PngHeight]}
                ELSE artefacts
          /\ main_pc' = "exit" /\ exitCode' = 0
          /\ crashed' = crashed
       \/ /\ opts.pngOutput /\ Len(finalImage) < PngFloats
          /\ crashed' = TRUE
          /\ UNCHANGED <<artefacts, main_pc, exitCode>>
    /\ UNCHANGED <<inputs, argv, arg_i, opts, fileKind, failedRows, flattenVars, rowStatus,
                   m_inputBuffer, m_mergedBuffer, finalImage, loaderVars, mergerVars,
                   writerVars, returned, liveBlocks, nstores, rasterWrites>>

\* the state of the variables of processAllEXR before it is called
NotStarted ==
    /\ rowStatus = EmptyVec
    /\ m_inputBuffer = EmptyVec
    /\ m_mergedBuffer = EmptyVec
    /\ finalImage = <<>>
    /\ ld_pc = "idle" /\ load_y = 0 /\ load_i = 0 /\ yStart = 0
    /\ mg_pc = "idle" /\ merge_y = 0 /\ merge_x = 0
    /\ wr_pc = "idle" /\ write_y = 0
    /\ returned = FALSE
    /\ crashed = FALSE
    /\ failedRows = {}
    /\ liveBlocks = 0
    /\ nstores = EmptyVec
    /\ rasterWrites = EmptyVec

\* main is entered with a command line of at most MaxArgs words
InitArgs ==
    /\ argv \in UNION {[1 .. n -> Tokens] : n \in 0 .. MaxArgs}
    /\ arg_i = 1
    /\ opts = DefaultOptions
    /\ inputZOffsets = EmptyVec
    /\ mergeThreshold = DefaultThreshold
    /\ main_pc = "parseArgs"
    /\ exitCode = NoExit
    /\ artefacts = {}
    /\ height = 1 /\ numFiles = 0 /\ pattern = "uniform"
    /\ fileKind = EmptyVec
    /\ NotStarted
    /\ FlattenIdle

\* parseArgs has returned true for a command line that names numFiles inputs
\* and the prefix "out"; the files are of any kind
InitMain ==
    /\ height \in 1 .. MainHeight
    /\ numFiles \in 1 .. MaxFiles
    /\ pattern \in Patterns
    /\ fileKind \in [0 .. (numFiles - 1) -> FileKinds]
    /\ fileKind[0] # "dims"
    /\ argv = <<>> /\ arg_i = 0
    /\ \E png \in BOOLEAN :
          opts = [DefaultOptions EXCEPT
                     !.inputFiles = [i \in 0 .. (numFiles - 1) |-> "a.exr"],
                     !.outputPrefix = "out", !.pngOutput = png]
    /\ inputZOffsets = EmptyVec
    /\ mergeThreshold = DefaultThreshold
    /\ main_pc = "isDeepEXR"
    /\ exitCode = NoExit
    /\ artefacts = {}
    /\ NotStarted
    /\ FlattenIdle

\* ------------------------------------------- flattenRow, sample by sample
\* The samples the rows are made of, <<r, g, b, a, z>>: half transparent,
\* nearly opaque (alpha 0.999) and opaque.
SampleKinds == {<<500, 0, 0, 500, 5>>, <<0, 999, 0, 999, 5>>, <<0, 0, 1000, 1000, 5>>}

\* a merged row of the given counts that holds the given samples, pixel after pixel
RowOf(counts, samples) ==
    [allocateMax(NullRow, width, SumSeq(counts)) EXCEPT
        !.sampleCounts = counts, !.mem = Flat(samples)]

\* every variable but those of flattenRow
notFlattenVars ==
    <<inputs, argv, arg_i, opts, fileKind, main_pc, exitCode, artefacts, failedRows,
      rowStatus, m_inputBuffer, m_mergedBuffer, finalImage, loaderVars, mergerVars,
      writerVars, returned, crashed, liveBlocks, nstores, rasterWrites>>

\* flattenRow is entered with a merged row of at most MaxSamples samples per
\* pixel and a zeroed rowRGB: float* samplePtr = deepRow.allSamples
InitFlatten ==
    /\ \E counts \in [1 .. width -> 0 .. MaxSamples] :
          \E samples \in [1 .. SumSeq(counts) -> SampleKinds] :
              fr_deepRow = RowOf(counts, samples)
    /\ fr_rgbOutput = ZeroRow
    /\ fr_x = 0 /\ fr_s = 0 /\ fr_acc = <<0, 0, 0, 0>> /\ fr_samplePtr = 0
    /\ fr_pc = "pixel"
    /\ argv = <<>> /\ arg_i = 0
    /\ opts = DefaultOptions
    /\ inputZOffsets = EmptyVec
    /\ mergeThreshold = DefaultThreshold
    /\ main_pc = "threads"
    /\ exitCode = NoExit
    /\ artefacts = {}
    /\ height = 1 /\ numFiles = 0 /\ pattern = "uniform"
    /\ fileKind = EmptyVec
    /\ NotStarted

\* int numSamples = deepRow.sampleCounts[x]
numSamples == getSampleCount(fr_deepRow, fr_x)

\* the head of the pixel loop: the accumulators start at 0
FlattenPixel ==
    /\ fr_pc = "pixel" /\ fr_x < fr_deepRow.width
    /\ fr_acc' = <<0, 0, 0, 0>>
    /\ fr_s' = 0
    /\ fr_pc' = IF numSamples > 0 THEN "sample" ELSE "store"
    /\ UNCHANGED <<fr_deepRow, fr_rgbOutput, fr_x, fr_samplePtr, notFlattenVars>>

\* one iteration of the sample loop: the sample is accumulated, samplePtr moves
\* on, and then the early-out test is made
FlattenSample ==
    /\ fr_pc = "sample" /\ fr_s < numSamples
    /\ LET r == Rd(fr_deepRow, fr_samplePtr)
           g == Rd(fr_deepRow, fr_samplePtr + 1)
           b == Rd(fr_deepRow, fr_samplePtr + 2)
           a == Rd(fr_deepRow, fr_samplePtr + 3)
           weight == Weight(a, fr_acc[4])
           acc2 == <<fr_acc[1] + FMul(r, weight), fr_acc[2] + FMul(g, weight),
                     fr_acc[3] + FMul(b, weight), fr_acc[4] + weight>>
       IN  /\ fr_acc' = acc2
           /\ IF Opaque(acc2[4])
              THEN /\ fr_samplePtr' = fr_samplePtr + RowStride + BreakSkip(numSamples, fr_s)
                   /\ fr_s' = fr_s
                   /\ fr_pc' = "store"
              ELSE /\ fr_samplePtr' = fr_samplePtr + RowStride
                   /\ fr_s' = fr_s + 1
                   /\ fr_pc' = IF fr_s + 1 < numSamples THEN "sample" ELSE "store"
    /\ UNCHANGED <<fr_deepRow, fr_rgbOutput, fr_x, notFlattenVars>>

\* rgbOutput[x * 3 + 0 .. 2] = accR, accG, accB; ++x
FlattenStore ==
    /\ fr_pc = "store"
    /\ fr_rgbOutput' = [fr_rgbOutput EXCEPT ![fr_x * 3 + 1] = fr_acc[1],
                                            ![fr_x * 3 + 2] = fr_acc[2],
                                            ![fr_x * 3 + 3] = fr_acc[3]]
    /\ fr_x' = fr_x + 1
    /\ fr_pc' = IF fr_x + 1 < fr_deepRow.width THEN "pixel" ELSE "done"
    /\ UNCHANGED <<fr_deepRow, fr_s, fr_acc, fr_samplePtr, notFlattenVars>>

Loader == LoaderWait \/ LoaderLoad \/ LoaderPublish
ChunkLoader == ChunkLoaderWait \/ ChunkLoaderLoad \/ ChunkLoaderPublish
Merger == MergerWait \/ MergerAlloc \/ MergerPixel \/ MergerPublish
Merger6 == MergerWait \/ MergerAlloc \/ MergerPixel6 \/ MergerPublish
Writer == WriterWait \/ WriterFlatten \/ WriterClear \/ WriterPublish

Next == Loader \/ Merger \/ Writer \/ DriverReturn
NextChunk == ChunkLoader \/ Merger \/ Writer \/ DriverReturn
Next6 == Loader \/ Merger6 \/ Writer \/ DriverReturn

\* the pipeline with the per-row loader of deep_compositor.cpp
Spec == Init /\ [][Next]_vars
\* the pipeline with the chunked loader of temp.cpp
SpecChunk == Init /\ [][NextChunk]_vars
\* the per-row pipeline with the six-float mergePixelsDirect of part_001
Spec6 == Init /\ [][Next6]_vars
\* the per-row pipeline with each thread scheduled fairly
FairSpec ==
    Spec /\ WF_vars(Loader) /\ WF_vars(Merger) /\ WF_vars(Writer) /\ WF_vars(DriverReturn)

\* parseArgs and what main does with its result
NextArgs == parseArgs \/ MainUsage \/ MainHelp \/ MainBegin
SpecArgs == InitArgs /\ [][NextArgs]_vars

\* the program from the return of parseArgs on, over files of any kind
MainLoader == Loader \/ LoaderReadFails
\* the steps of the main thread
MainThread == MainIsDeepEXR \/ processAllEXRBegin \/ DriverReturn \/ MainOutputs
NextMain == MainThread \/ MainLoader \/ Merger \/ Writer
SpecMain == InitMain /\ [][NextMain]_vars
\* the same with main and each thread scheduled fairly
FairSpecMain ==
    /\ SpecMain
    /\ WF_vars(MainThread) /\ WF_vars(MainLoader) /\ WF_vars(Merger) /\ WF_vars(Writer)

\* flattenRow run on its own, one loop iteration at a time
NextFlatten == FlattenPixel \/ FlattenSample \/ FlattenStore
SpecFlatten == InitFlatten /\ [][NextFlatten]_vars

\* ------------------------------------------------- what a run should compute
\* row y of input i as the loader leaves it in a slot that was never used
ExpectedLoaded(i, y) == LoadRow(NullRow, i, y)

RECURSIVE MergeFrom(_, _, _)
MergeFrom(x, ins, out) ==
    IF x >= width THEN out ELSE MergeFrom(x + 1, ins, mergePixelsDirect(x, ins, out))

\* the merged row y, computed by the merger's code from the rows above
ExpectedMerged(y) ==
    LET ins == [k \in 1 .. numFiles |-> ExpectedLoaded(k - 1, y)]
        total == SumSeq([k \in 1 .. numFiles |-> ins[k].totalSamplesInRow])
    IN  MergeFrom(0, ins, allocateMax(NullRow, width, total))

\* the raster the three stages compute when run one row after the other
ExpectedRaster ==
    Flat([k \in 1 .. height |-> flattenRow(ExpectedMerged(k - 1), ZeroRow)])

\* what a slot holds: its counts and its samples
Content(row) == <<row.sampleCounts, row.mem>>

\* ------------------------------------------------------------------ claims

\* C1: in the per-row pipeline the loader writes the input slots of a row
\* y >= WINDOW only once status[y - WINDOW] is Flattened, and it is never more
\* than WINDOW rows ahead of the flattener.
C1_LoaderWaitsForFlattened ==
    /\ (ld_pc = "load" /\ load_y >= windowSize)
          => rowStatus[load_y - windowSize] = FLATTENED
    /\ load_y <= write_y + windowSize

\* the loader is writing a slot that held an earlier row
C1_Witness == ld_pc = "load" /\ load_y >= windowSize /\ ~crashed

C2_Step(y) ==
    \/ nstores'[y] = nstores[y] /\ rowStatus'[y] = rowStatus[y]
    \/ /\ nstores'[y] = nstores[y] + 1
       /\ rowStatus'[y] = rowStatus[y] + 1
       /\ \/ ld_pc = "publish" /\ load_y = y /\ rowStatus'[y] = LOADED
          \/ mg_pc = "publish" /\ merge_y = y /\ rowStatus'[y] = MERGED
          \/ wr_pc = "publish" /\ write_y = y /\ rowStatus'[y] = FLATTENED

C3_NoLoaderMergerOverlap ==
    /\ ld_pc = "load" => rowStatus[load_y] = EMPTY
    /\ mg_pc \in {"alloc", "merge"} => rowStatus[merge_y] = LOADED
    /\ ~(/\ ld_pc = "load"
         /\ mg_pc \in {"alloc", "merge"}
         /\ load_y % windowSize = merge_y % windowSize)

\* the loader writes a reused slot while the merger is in its pixel loop
C3_Witness ==
    ld_pc = "load" /\ load_y >= windowSize /\ mg_pc = "merge" /\ ~crashed

\* C4: in the chunked pipeline, whenever the loader writes the input slot of a
\* row y >= WINDOW of a chunk, status[y - WINDOW] is already Flattened.
C4_ChunkRowsThrottled ==
    (ld_pc = "load" /\ yStart >= windowSize /\ load_y >= yStart)
        => rowStatus[load_y - windowSize] = FLATTENED

\* C5: under fair scheduling every row is eventually Flattened, the three
\* workers terminate and the driver returns.
C5_EventuallyAllFlattened ==
    <>(returned /\ \A y \in Rows : rowStatus[y] = FLATTENED)

\* C6: the raster processAllEXR returns is the same for every interleaving:
\* it is the raster the stages compute row after row from the inputs.
C6_RasterDeterministic == returned => finalImage = ExpectedRaster

\* a run over more rows than the ring has slots has returned a raster
C6_Witness ==
    returned /\ height > windowSize /\ numFiles = MaxFiles
             /\ \E k \in DOMAIN finalImage : finalImage[k] # 0

\* C7: the pipeline with the chunked loader hands the flattener the same merged
\* rows, and returns the same raster, as the pipeline with the per-row loader.
C7_ChunkedSameResult ==
    /\ wr_pc = "flatten"
          => Content(m_mergedBuffer[write_y % windowSize])
                = Content(ExpectedMerged(write_y))
    /\ returned => finalImage = ExpectedRaster

\* C8: when the flattener is about to publish Flattened for row y, the merged
\* slot and the N input slots of the row have been released.
C8_SlotsReleasedAtPublish ==
    wr_pc = "publish"
        => /\ m_mergedBuffer[write_y % windowSize].isNull
           /\ \A i \in Files : m_inputBuffer[i][write_y % windowSize].isNull

\* C9: the number of blocks allocated and not released never exceeds
\* WINDOW * (N + 1).
C9_BlocksBounded == liveBlocks <= windowSize * (numFiles + 1)

C10_RowUntouched(y) ==
    \A k \in (y * width * 4 + 1) .. ((y + 1) * width * 4) :
        finalImage'[k] = finalImage[k]

C10_Step(y) ==
    IF rasterWrites'[y] = rasterWrites[y]
    THEN C10_RowUntouched(y)
    ELSE /\ rasterWrites[y] = 0 /\ rasterWrites'[y] = 1
         /\ wr_pc = "flatten" /\ write_y = y
         /\ rowStatus[y] >= MERGED

\* C10: each raster row is written once, by the flattener, after the row is
\* Merged, and flattening row y leaves every other raster row as it was; when
\* the driver returns every row has been written.
C10_RasterRowWrittenOnce ==
    [][/\ \A y \in Rows : C10_Step(y)
       /\ returned' => \A y \in Rows : rasterWrites'[y] = 1]_vars

\* a run over more rows than the ring has slots has written every row once
C10_Witness ==
    returned /\ height > windowSize /\ \A y \in Rows : rasterWrites[y] = 1

\* C11: once the flattener has processed row y, the four raster entries at
\* offsets 4*(y*W + x) .. 4*(y*W + x) + 3 are the (R, G, B, A) accumulated for
\* merged pixel x of the row.
C11_RasterHoldsRGBA ==
    (wr_pc = "clear" /\ ~crashed)
        => \A x \in 0 .. (width - 1) : \A c \in 1 .. 4 :
              finalImage[4 * (write_y * width + x) + c]
                 = PixelOver(m_mergedBuffer[write_y % windowSize], x)[c]

RECURSIVE C12_Recurrence(_, _)
\* the front-to-back recurrence over premultiplied samples, from acc
C12_Recurrence(samples, acc) ==
    IF samples = <<>> THEN acc
    ELSE LET h == Head(samples)
             t == Scale - acc[4]
         IN  C12_Recurrence(Tail(samples),
                            <<acc[1] + FMul(h[1], t), acc[2] + FMul(h[2], t),
                              acc[3] + FMul(h[3], t), acc[4] + FMul(h[4], t)>>)

\* C12: what flattenRow accumulates for a merged pixel equals the front-to-back
\* recurrence R += r*(1 - A), G += g*(1 - A), B += b*(1 - A), A += a*(1 - A)
\* over the pixel's premultiplied samples, started from (0, 0, 0, 0).
C12_FlattenIsOver ==
    (wr_pc = "clear" /\ ~crashed)
        => \A x \in 0 .. (width - 1) :
              LET row == m_mergedBuffer[write_y % windowSize]
              IN  PixelOver(row, x) = C12_Recurrence(MergedSamples(row, x), <<0, 0, 0, 0>>)

\* row y of a two-source input where each source gives one opaque point sample
\* per pixel and the two lie at different depths
C13_TwoOpaquePoints(y) ==
    /\ numFiles = 2
    /\ \A x \in 0 .. (width - 1) :
          /\ \A i \in Files :
                /\ SourceCount(i, y, x) = 1
                /\ SourceSample(i, y, x, 0)[4] = Scale
                /\ SourceSample(i, y, x, 0)[5] = SourceSample(i, y, x, 0)[6]
          /\ SourceSample(0, y, x, 0)[5] # SourceSample(1, y, x, 0)[5]

\* the sample with the smaller z_front at pixel (x, y)
C13_Front(y, x) ==
    LET s0 == SourceSample(0, y, x, 0)
        s1 == SourceSample(1, y, x, 0)
    IN  IF s0[5] < s1[5] THEN s0 ELSE s1

\* C13: for two sources that each give one opaque point sample per pixel at
\* different depths, every output pixel is the (R, G, B, A) of the sample with
\* the smaller z_front, whichever source is listed first.
C13_NearestOpaqueWins ==
    (wr_pc = "clear" /\ ~crashed /\ C13_TwoOpaquePoints(write_y))
        => \A x \in 0 .. (width - 1) : \A c \in 1 .. 4 :
              finalImage[4 * (write_y * width + x) + c] = C13_Front(write_y, x)[c]

\* at row y every two samples of different inputs have disjoint depth intervals
C14_DisjointDepths(y) ==
    \A x \in 0 .. (width - 1) : \A i, j \in Files :
        i # j =>
            \A s \in 0 .. (SourceCount(i, y, x) - 1) :
                \A t \in 0 .. (SourceCount(j, y, x) - 1) :
                    LET a == StoredSample(i, y, x, s)
                        b == StoredSample(j, y, x, t)
                    IN  a[6] < b[5] \/ b[6] < a[5]

\* the row the merger makes of the slot's input rows taken in the opposite order
C14_MergedReversed(slot) ==
    LET ins == InputRows(slot)
        rev == [k \in 1 .. Len(ins) |-> ins[Len(ins) + 1 - k]]
    IN  MergeFrom(0, rev, allocateMax(NullRow, width, totalPossibleSamplesInRow(slot)))

\* C14: when samples of different inputs have disjoint depth intervals, listing
\* the inputs in another order leaves every merged pixel's sample list, and the
\* raster row flattened from it, unchanged.
C14_OrderIndependent ==
    (mg_pc = "publish" /\ ~crashed /\ C14_DisjointDepths(merge_y))
        => LET slot == merge_y % windowSize
               row == m_mergedBuffer[slot]
               rev == C14_MergedReversed(slot)
           IN  /\ \A x \in 0 .. (width - 1) :
                     MergedSamples(row, x) = MergedSamples(rev, x)
               /\ flattenRow(row, ZeroRow) = flattenRow(rev, ZeroRow)

\* the samples the inputs hold at pixel (x, y), input after input
C15_InputSamples(y, x) ==
    Flat([k \in 1 .. numFiles |->
            [s \in 1 .. SourceCount(k - 1, y, x) |-> SourceSample(k - 1, y, x, s - 1)]])

\* every sample the inputs hold in row y is a point sample
C15_PointSamples(y) ==
    \A x \in 0 .. (width - 1) : \A k \in DOMAIN C15_InputSamples(y, x) :
        C15_InputSamples(y, x)[k][5] = C15_InputSamples(y, x)[k][6]

\* how often <<r, g, b, a, z>> occurs in a list of samples
C15_Occurrences(samples, e) ==
    Cardinality({k \in DOMAIN samples : SubSeq(samples[k], 1, 5) = e})

\* C15: with threshold 0 and point samples only, merged pixel x of row y holds
\* the samples of the N inputs at (x, y), each as often as the inputs hold it,
\* in ascending depth order; its count is the sum of the inputs' counts.
C15_MergedIsSortedUnion ==
    (mg_pc = "publish" /\ ~crashed /\ mergeThreshold = 0 /\ C15_PointSamples(merge_y))
        => \A x \in 0 .. (width - 1) :
              LET row == m_mergedBuffer[merge_y % windowSize]
                  merged == MergedSamples(row, x)
                  given == C15_InputSamples(merge_y, x)
              IN  /\ getSampleCount(row, x) = Len(given)
                  /\ \A k \in DOMAIN given :
                        C15_Occurrences(merged, SubSeq(given[k], 1, 5))
                           = C15_Occurrences(given, SubSeq(given[k], 1, 5))
                  /\ \A k \in 1 .. (Len(merged) - 1) : merged[k][5] <= merged[k + 1][5]

\* the z offset of input i: the one given with --mod-offset, else 0
C16_Offset(i) == IF i \in DOMAIN inputZOffsets THEN inputZOffsets[i] ELSE 0

\* C16: every sample gathered from input i enters the merge with its depth
\* increased by inputZOffsets[i].  Stated for the first sample of a row (pixel 0,
\* sample 0), which the merger reads at the offset the loader wrote it.
C16_OffsetsApplied ==
    (mg_pc = "publish" /\ ~crashed)
        => \A i \in Files :
              SourceCount(i, merge_y, 0) >= 1 =>
                 LET given == SourceSample(i, merge_y, 0, 0)
                     merged == MergedSamples(m_mergedBuffer[merge_y % windowSize], 0)
                 IN  \E k \in DOMAIN merged :
                        /\ SubSeq(merged[k], 1, 4) = SubSeq(given, 1, 4)
                        /\ merged[k][5] = given[5] + C16_Offset(i)

\* the samples the merger has just written for pixel 0 of the row it is merging
\* (pixel 1 has not been written yet)
C17_FirstPixelMerged == mg_pc = "merge" /\ merge_x = 1 /\ ~crashed

C17_Dist(a, b) == IF a < b THEN b - a ELSE a - b

\* C17: with a merge threshold eps > 0 no two consecutive samples of a merged
\* pixel are left with z_front and z_back both closer than eps: such samples
\* have been collapsed into one.
C17_NearSamplesCollapsed ==
    (C17_FirstPixelMerged /\ mergeThreshold > 0)
        => LET merged == MergedSamples6(m_mergedBuffer[merge_y % windowSize], 0)
           IN  \A k \in 1 .. (Len(merged) - 1) :
                  ~(/\ C17_Dist(merged[k][5], merged[k + 1][5]) < mergeThreshold
                    /\ C17_Dist(merged[k][6], merged[k + 1][6]) < mergeThreshold)

\* C18: after the merge every two volume samples of a merged pixel have the
\* same (z_front, z_back) or do not overlap in depth.
C18_VolumesSplit ==
    (mg_pc = "merge" /\ merge_x = 1 /\ ~crashed)
        => LET merged == MergedSamples6(m_mergedBuffer[merge_y % windowSize], 0)
           IN  \A j, k \in DOMAIN merged :
                  (j < k /\ merged[j][5] < merged[j][6] /\ merged[k][5] < merged[k][6])
                     => \/ merged[j][5] = merged[k][5] /\ merged[j][6] = merged[k][6]
                        \/ ~(merged[j][5] < merged[k][6] /\ merged[k][5] < merged[j][6])

\* C19: when the loader is about to publish a row as Loaded, every sample of
\* an input without a ZBack channel has z_back equal to its z_front.  Stated for
\* the samples whose six floats lie inside the slot's block.
C19_ZBackDefaultsToZ ==
    (ld_pc = "publish" /\ ~crashed)
        => \A i \in Files :
              ~HasZBack(i) =>
                 LET row == m_inputBuffer[i][load_y % windowSize]
                 IN  \A x \in 0 .. (width - 1) :
                        \A s \in 0 .. (getSampleCount(row, x) - 1) :
                           LET off == LoadPixelPtr(row, x) + s * LoadStride
                           IN  off + 5 < Len(row.mem)
                                  => Rd(row, off + 5) = Rd(row, off + 4)

\* C20: for every loaded row the slot's block holds 6 * (sum of counts) floats,
\* pixel x starts at offset 6 * (samples before x), and every float the loader
\* wrote while reading the row lies inside the block.
C20_LoadedBlockLayout ==
    (ld_pc = "publish" /\ ~crashed)
        => \A i \in Files :
              LET row == m_inputBuffer[i][load_y % windowSize]
              IN  /\ Len(row.mem) = 6 * SumSeq(row.sampleCounts)
                  /\ \A x \in 0 .. (width - 1) :
                        getPixelData(row, x) = 6 * SamplesBefore(row, x)
                  /\ ~LoadOverruns(row)

\* C21: every write the merger makes into the merged slot during the pixel loop
\* stays inside the block allocated for the slot before the loop.  Stated for
\* the rows whose merged slot holds a block (the slot's first use).
C21_MergeWritesFit ==
    (mg_pc = "merge" /\ ~crashed)
        => LET slot == merge_y % windowSize
               out == m_mergedBuffer[slot]
           IN  ~out.isNull
                  => getPixelData(out, merge_x)
                        + Len(Staging6(InputRows(slot), merge_x)) * MergeStride6
                       <= out.currentCapacity

\* a step in which the loader allocates input slot (load_i, load_y): on a slot
\* that owns a block the number of live blocks stays the same (the block is
\* kept, or it is released for the new one), and a block that is large enough
\* stays the slot's block
C22_LoaderStep ==
    LET slot == load_y % windowSize
        old == m_inputBuffer[load_i][slot]
        new == m_inputBuffer'[load_i][slot]
    IN  (ld_pc = "load" /\ load_i' = load_i + 1 /\ ~crashed' /\ ~old.isNull)
            => /\ liveBlocks' = liveBlocks
               /\ new.totalSamplesInRow * RowStride <= old.currentCapacity
                     => new.currentCapacity = old.currentCapacity

\* the same for the step in which the merger allocates merged slot merge_y
C22_MergerStep ==
    LET slot == merge_y % windowSize
        old == m_mergedBuffer[slot]
        new == m_mergedBuffer'[slot]
    IN  (mg_pc = "alloc" /\ mg_pc' = "merge" /\ ~old.isNull)
            => /\ liveBlocks' = liveBlocks
               /\ totalPossibleSamplesInRow(slot) * RowStride <= old.currentCapacity
                     => new.mem = old.mem /\ new.currentCapacity = old.currentCapacity

\* C22: allocating a DeepRow slot that owns a block large enough for the request
\* keeps the block (no new block, none orphaned); a new block is allocated only
\* when the request exceeds the capacity, and then the old block is released.
C22_AllocateReusesBlock == [][C22_LoaderStep /\ C22_MergerStep]_vars

\* some input's width or height differs from input 0's
C23_Mismatch ==
    \E i \in Files : InfoWidth(i) # InfoWidth(0) \/ InfoHeight(i) # InfoHeight(0)

C24_SourceError ==
    \E i \in Files :
        \/ fileKind[i] \in {"missing", "flat"}
        \/ InfoWidth(i) # InfoWidth(0) \/ InfoHeight(i) # InfoHeight(0)

\* C24: when an input cannot be opened, is not deep, or has dimensions other
\* than the first input's, the program writes no output file and its exit code,
\* once it has one, is 1.
C24_SourceErrorExitsOne ==
    C24_SourceError => artefacts = {} /\ exitCode \in {NoExit, 1}

\* C25: once a scanline read of row y has failed, row y and the rows after it
\* are never published: their status stays Empty, no store is made to it, and
\* neither the merger nor the flattener gets past its wait for row y.
C25_FailedRowUnpublished ==
    \A y \in failedRows :
        /\ \A r \in Rows : r >= y => rowStatus[r] = EMPTY /\ nstores[r] = 0
        /\ merge_y <= y /\ (merge_y = y => mg_pc = "wait")
        /\ write_y <= y /\ (write_y = y => wr_pc = "wait")

\* a read of a row after the first has failed while the merger waits for the row
C25_Witness ==
    \E y \in failedRows : y >= 1 /\ merge_y = y /\ mg_pc = "wait" /\ rowStatus[0] >= MERGED

\* C26: after a scanline read has failed, the three workers stop, the driver
\* joins them and returns, and the program ends with a result that is not
\* success.
C26_ReadErrorIsReturned ==
    (failedRows # {}) ~> (ld_pc = "done" /\ mg_pc = "done" /\ wr_pc = "done"
                            /\ main_pc = "exit" /\ exitCode = 1)

RECURSIVE C27_Roles(_, _)
\* what each word of argv[k ..] is on the command line, read from left to right
\* (mod: --mod-offset stands before it): "help", "flag", "value" (the word after
\* --merge-threshold), "novalue" (a --merge-threshold without a number after
\* it), "unknown" (an option the program does not have), "offset" or "positional"
C27_Roles(k, mod) ==
    IF k > Len(argv) THEN <<>>
    ELSE LET arg == argv[k]
         IN  CASE arg \in {"--help", "-h"} -> <<"help">> \o C27_Roles(k + 1, mod)
               [] arg = "--mod-offset" -> <<"flag">> \o C27_Roles(k + 1, TRUE)
               [] arg \in FlagWords \ {"--mod-offset"} ->
                     <<"flag">> \o C27_Roles(k + 1, mod)
               [] arg = "--merge-threshold" ->
                     IF k = Len(argv) THEN <<"novalue">>
                     ELSE <<IF isFloat(argv[k + 1]) THEN "flag" ELSE "novalue", "value">>
                              \o C27_Roles(k + 2, mod)
               [] OTHER ->
                     IF StartsWithDash(arg) /\ ~isFloat(arg)
                     THEN <<"unknown">> \o C27_Roles(k + 1, mod)
                     ELSE IF mod /\ isFloat(arg)
                     THEN <<"offset">> \o C27_Roles(k + 1, mod)
                     ELSE <<"positional">> \o C27_Roles(k + 1, mod)

\* the positional arguments, in command line order
C27_Positionals ==
    LET roles == C27_Roles(1, FALSE)
        F[k \in 0 .. Len(argv)] ==
            IF k = 0 THEN <<>>
            ELSE IF roles[k] = "positional" THEN Append(F[k - 1], argv[k]) ELSE F[k - 1]
    IN  F[Len(argv)]

\* the command line lacks an input or the output prefix, names an unknown
\* option, or gives --merge-threshold no valid value
C27_UsageError ==
    \/ Len(C27_Positionals) < 2
    \/ \E k \in 1 .. Len(argv) : C27_Roles(1, FALSE)[k] \in {"unknown", "novalue"}

\* --help or -h stands before every unknown option and every --merge-threshold
\* without a value
C27_HelpFirst ==
    \E h \in 1 .. Len(argv) :
        /\ C27_Roles(1, FALSE)[h] = "help"
        /\ \A k \in 1 .. (h - 1) : C27_Roles(1, FALSE)[k] \notin {"unknown", "novalue"}

\* parseArgs has failed and main has not gone past its usage exit
C27_Failed ==
    /\ main_pc \in {"returnedFalse", "exit"}
    /\ main_pc = "exit" => exitCode = 1
    /\ ld_pc = "idle" /\ mg_pc = "idle" /\ wr_pc = "idle"

\* opts names the last positional argument as the output prefix and the others,
\* in their order, as the inputs
C27_PrefixAndInputs ==
    LET pos == C27_Positionals
    IN  /\ opts.outputPrefix = pos[Len(pos)]
        /\ size(opts.inputFiles) = Len(pos) - 1
        /\ \A k \in 1 .. (Len(pos) - 1) : opts.inputFiles[k - 1] = pos[k]

C28_ModOffsetFirst ==
    LET roles == C27_Roles(1, FALSE)
    IN  /\ \E m \in 1 .. Len(argv) :
              /\ argv[m] = "--mod-offset" /\ roles[m] = "flag"
              /\ \A k \in 1 .. (m - 1) : roles[k] # "positional"
        /\ \A k \in 1 .. Len(argv) : roles[k] # "help"

\* the places of the positional arguments on the command line, in order
C28_Places ==
    LET roles == C27_Roles(1, FALSE)
        F[k \in 0 .. Len(argv)] ==
            IF k = 0 THEN <<>>
            ELSE IF roles[k] = "positional" THEN Append(F[k - 1], k) ELSE F[k - 1]
    IN  F[Len(argv)]

\* the first place after j that holds neither an option nor the value of
\* --merge-threshold (Len(argv) + 1 if there is none)
C28_NextWord(j) ==
    LET roles == C27_Roles(1, FALSE)
        rest == {k \in (j + 1) .. Len(argv) : roles[k] \notin {"flag", "value", "novalue"}}
    IN  IF rest = {} THEN Len(argv) + 1 ELSE CHOOSE k \in rest : \A l \in rest : k <= l

\* the last place before j that holds neither an option nor the value of
\* --merge-threshold (0 if there is none)
C28_PrevWord(j) ==
    LET roles == C27_Roles(1, FALSE)
        rest == {k \in 1 .. (j - 1) : roles[k] \notin {"flag", "value", "novalue"}}
    IN  IF rest = {} THEN 0 ELSE CHOOSE k \in rest : \A l \in rest : k >= l

\* parseArgs has returned true
C28_Parsed == main_pc \in {"returnedTrue", "isDeepEXR"}

\* parseArgs has returned false, or main has exited 1 on it
C28_Rejected == main_pc \in {"returnedFalse", "exit"} /\ (main_pc = "exit" => exitCode = 1)

\* C28 as it stands (for command lines without --help): with --mod-offset before
\* the positional arguments, a successful parse leaves inputZOffsets[k] equal to
\* the float written directly after input k, or 0 when none is written there;
\* a float that does not directly follow a positional argument is rejected.
C28_OffsetsDirectlyAfter ==
    (main_pc # "parseArgs" /\ C28_ModOffsetFirst)
        => LET roles == C27_Roles(1, FALSE)
           IN  /\ C28_Parsed =>
                     \A k \in 0 .. (size(opts.inputFiles) - 1) :
                         LET j == C28_Places[k + 1] + 1
                         IN  inputZOffsets[k] =
                                IF j <= Len(argv) /\ roles[j] = "offset"
                                THEN stof(argv[j]) ELSE 0
               /\ (\E j \in 1 .. Len(argv) :
                      roles[j] = "offset" /\ (j = 1 \/ roles[j - 1] # "positional"))
                     => C28_Rejected

\* C28, amended: the same with "directly after" read as "after, with nothing
\* but options in between": inputZOffsets[k] is the float that follows input k
\* before the next positional argument, or 0 when there is none; a float whose
\* nearest word before it, options aside, is not a positional argument is
\* rejected.
C28_OffsetsFollowInputs ==
    (main_pc # "parseArgs" /\ C28_ModOffsetFirst)
        => LET roles == C27_Roles(1, FALSE)
           IN  /\ C28_Parsed =>
                     \A k \in 0 .. (size(opts.inputFiles) - 1) :
                         LET j == C28_NextWord(C28_Places[k + 1])
                         IN  inputZOffsets[k] =
                                IF j <= Len(argv) /\ roles[j] = "offset"
                                THEN stof(argv[j]) ELSE 0
               /\ (\E j \in 1 .. Len(argv) :
                      /\ roles[j] = "offset"
                      /\ C28_PrevWord(j) = 0 \/ roles[C28_PrevWord(j)] # "positional")
                     => C28_Rejected

\* parseArgs has succeeded on a command line that gives input 0 an offset and
\* input 1 none
C28_Witness ==
    /\ C28_Parsed /\ C28_ModOffsetFirst
    /\ size(opts.inputFiles) = 2
    /\ inputZOffsets[0] # 0 /\ inputZOffsets[1] = 0

\* in row y the last input gives one opaque sample per pixel and every other
\* input one fully transparent sample of colour 0
C29_OpaqueBehindTransparent(y) ==
    \A x \in 0 .. (width - 1) : \A i \in Files :
        /\ SourceCount(i, y, x) = 1
        /\ IF i = numFiles - 1
           THEN SourceSample(i, y, x, 0)[4] = Scale
           ELSE SubSeq(SourceSample(i, y, x, 0), 1, 4) = <<0, 0, 0, 0>>

\* C29: an opaque single-sample source composited behind any number of fully
\* transparent sources gives, in every pixel, exactly the opaque sample's
\* colour and alpha 1.
C29_BackgroundShowsThrough ==
    (wr_pc = "clear" /\ ~crashed /\ C29_OpaqueBehindTransparent(write_y))
        => \A x \in 0 .. (width - 1) : \A c \in 1 .. 4 :
              finalImage[4 * (write_y * width + x) + c]
                 = SourceSample(numFiles - 1, write_y, x, 0)[c]

\* accA of flattenRow for pixel x once the first n samples of the pixel have
\* been gone through
C30_AlphaAfter(deepRow, x, n) ==
    FlattenSamples(deepRow, getPixelData(deepRow, x), 0, n, <<0, 0, 0, 0>>)[4]

\* every sample flattenRow reads for pixel x has its alpha in [0, 1]
C30_AlphasInRange(deepRow, x) ==
    \A s \in DOMAIN MergedSamples(deepRow, x) :
        MergedSamples(deepRow, x)[s][4] \in 0 .. Scale

\* C30: for every pixel whose samples have their alpha in [0, 1], the alpha
\* flattenRow accumulates never decreases from one sample to the next and
\* never exceeds 1.
C30_AlphaMonotone ==
    (wr_pc = "clear" /\ ~crashed)
        => LET row == m_mergedBuffer[write_y % windowSize]
           IN  \A x \in 0 .. (width - 1) :
                  C30_AlphasInRange(row, x)
                     => \A n \in 0 .. (getSampleCount(row, x) - 1) :
                           /\ C30_AlphaAfter(row, x, n) <= C30_AlphaAfter(row, x, n + 1)
                           /\ C30_AlphaAfter(row, x, n + 1) <= Scale

\* a pixel of two samples has been flattened and the second sample raised the
\* accumulated alpha
C30_Witness ==
    /\ wr_pc = "clear" /\ ~crashed
    /\ LET row == m_mergedBuffer[write_y % windowSize]
       IN  \E x \in 0 .. (width - 1) :
              /\ getSampleCount(row, x) >= 2
              /\ C30_AlphasInRange(row, x)
              /\ 0 < C30_AlphaAfter(row, x, 1)
              /\ C30_AlphaAfter(row, x, 1) < C30_AlphaAfter(row, x, 2)

\* C31: the merger works on merged slot y mod WINDOW for a row y >= WINDOW only
\* once the flattener has flattened and cleared row y - WINDOW and published it,
\* and the merger never works on a merged slot the flattener is reading or
\* clearing.
C31_MergerAfterFlattener ==
    /\ (mg_pc \in {"alloc", "merge"} /\ merge_y >= windowSize)
          => /\ rowStatus[merge_y - windowSize] = FLATTENED
             /\ write_y > merge_y - windowSize
    /\ ~(/\ mg_pc \in {"alloc", "merge"}
         /\ wr_pc \in {"flatten", "clear"}
         /\ merge_y % windowSize = write_y % windowSize)

\* the merger has written a pixel into a merged slot that held an earlier row
\* while the flattener is at work on another slot
C31_Witness ==
    /\ mg_pc = "merge" /\ merge_x >= 1 /\ merge_y >= windowSize /\ ~crashed
    /\ wr_pc \in {"flatten", "clear"}

\* currentCapacity of a DeepRow is the size of the block it owns
C32_CapacityIsBlockSize(row) ==
    row.currentCapacity = IF row.isNull THEN 0 ELSE Len(row.mem)

\* C32: in every slot currentCapacity equals the size of the block allSamples
\* points to, 0 when allSamples is null; and the merger never writes a pixel
\* through a null allSamples when it uses a merged slot again.
C32_CapacityMatchesBlock ==
    /\ \A s \in Slots :
          /\ C32_CapacityIsBlockSize(m_mergedBuffer[s])
          /\ \A i \in Files : C32_CapacityIsBlockSize(m_inputBuffer[i][s])
    /\ mg_pc = "merge"
          => ~MergeWritesNull(merge_x, InputRows(merge_y % windowSize),
                              m_mergedBuffer[merge_y % windowSize])

\* C33: while the merger works on row y, input slot (i, y mod WINDOW) holds the
\* counts and samples the loader read for row y of source i; while the
\* flattener reads merged slot y mod WINDOW for row y, the slot holds the
\* counts and samples merged for row y.
C33_SlotsHoldTheirRow ==
    /\ (mg_pc \in {"alloc", "merge"} /\ ~crashed)
          => \A i \in Files :
                Content(m_inputBuffer[i][merge_y % windowSize])
                   = Content(ExpectedLoaded(i, merge_y))
    /\ (wr_pc = "flatten" /\ ~crashed)
          => Content(m_mergedBuffer[write_y % windowSize])
                = Content(ExpectedMerged(write_y))

\* C34: each stage publishes its rows in increasing row order, one after the
\* other: the rows below the flattener's cursor are Flattened, those from there
\* to the merger's cursor Merged, those from there to the loader's cursor
\* Loaded, the rest Empty; so status[y] >= status[y'] for all rows y < y'.
C34_StatusNonIncreasing ==
    /\ write_y <= merge_y /\ merge_y <= load_y
    /\ \A y \in Rows :
          rowStatus[y] = IF y < write_y THEN FLATTENED
                         ELSE IF y < merge_y THEN MERGED
                         ELSE IF y < load_y THEN LOADED
                         ELSE EMPTY
    /\ \A y, y2 \in Rows : y < y2 => rowStatus[y] >= rowStatus[y2]

\* four rows in a row are in the four states
C34_Witness ==
    \E y \in Rows :
        /\ y + 3 \in Rows
        /\ rowStatus[y] = FLATTENED /\ rowStatus[y + 1] = MERGED
        /\ rowStatus[y + 2] = LOADED /\ rowStatus[y + 3] = EMPTY

\* C35: while the merger (with the mergePixelsDirect of part_001) is in the
\* pixel loop at pixel x, the counts of the pixels before x are final and those
\* of x and the later pixels are 0; pixel x is written at offset
\* stride * (samples before x), so the slice of each earlier pixel ends where
\* the next begins; a pixel without input samples has count 0.
C35_SlicesContiguous ==
    (mg_pc = "merge" /\ ~crashed)
        => LET slot == merge_y % windowSize
               out == m_mergedBuffer[slot]
               ins == InputRows(slot)
           IN  /\ \A k \in 0 .. (merge_x - 1) :
                     /\ getSampleCount(out, k) = Len(Staging6(ins, k))
                     /\ getPixelData(out, k) + MergeStride6 * getSampleCount(out, k)
                           = getPixelData(out, k + 1)
               /\ \A k \in merge_x .. (width - 1) : getSampleCount(out, k) = 0
               /\ getPixelData(out, merge_x) = MergeStride6 * SamplesBefore(out, merge_x)

RECURSIVE C36_Accumulate(_, _, _)
\* the accumulators after the first n samples of pixel x of a row have been
\* added, one after the other, with no test in between
C36_Accumulate(row, x, n) ==
    IF n = 0 THEN <<0, 0, 0, 0>>
    ELSE LET acc == C36_Accumulate(row, x, n - 1)
             p == getPixelData(row, x) + (n - 1) * RowStride
             w == FMul(Rd(row, p + 3), Scale - acc[4])
         IN  <<acc[1] + FMul(Rd(row, p), w), acc[2] + FMul(Rd(row, p + 1), w),
               acc[3] + FMul(Rd(row, p + 2), w), acc[4] + w>>

\* the number of samples of pixel x that count: up to and including the first
\* one after which the accumulated alpha is at least 0.999
C36_Counted(row, x) ==
    LET n == getSampleCount(row, x)
        hit == {k \in 1 .. n : C36_Accumulate(row, x, k)[4] >= AlphaCut}
    IN  IF hit = {} THEN n ELSE CHOOSE k \in hit : \A l \in hit : k <= l

\* one step of flattenRow: the sample loop goes on only while the alpha is below
\* the threshold and ends early only in a step that added the sample which took
\* it there; when the loop has ended the accumulators are those of the counted
\* samples, whatever the samples after them; they are what is stored; and the
\* pixel loop starts each pixel from (0, 0, 0, 0)
C36_Step ==
    /\ fr_pc' = "sample" => fr_acc'[4] < AlphaCut
    /\ (fr_pc' = "store" /\ fr_s' < getSampleCount(fr_deepRow, fr_x'))
          => /\ fr_pc = "sample" /\ fr_s' = fr_s
             /\ fr_acc[4] < AlphaCut /\ fr_acc'[4] >= AlphaCut
             /\ fr_acc' = C36_Accumulate(fr_deepRow, fr_x, fr_s + 1)
    /\ fr_pc' = "store"
          => fr_acc' = C36_Accumulate(fr_deepRow, fr_x', C36_Counted(fr_deepRow, fr_x'))
    /\ (fr_acc[4] >= AlphaCut /\ fr_pc # "pixel") => fr_acc' = fr_acc
    /\ fr_pc = "store"
          => \A c \in 1 .. 3 : fr_rgbOutput'[fr_x * 3 + c] = fr_acc[c]
    /\ fr_pc = "pixel" => fr_acc' = <<0, 0, 0, 0>> /\ fr_s' = 0

\* C36: flattenRow tests A >= 0.999 only after a sample has been added to A;
\* once the test holds the remaining samples of the pixel change none of R, G,
\* B, A; and the next pixel starts again from (0, 0, 0, 0).
C36_EarlyOut == [][C36_Step]_vars

\* the sample loop of the second pixel has ended early, at an alpha below 1,
\* with a sample of the pixel left over
C36_Witness ==
    /\ fr_pc = "store" /\ fr_x = 1
    /\ fr_s + 1 < numSamples
    /\ fr_acc[4] >= AlphaCut /\ fr_acc[4] < Scale
    /\ Rd(fr_deepRow, fr_samplePtr - RowStride + 3) > 0

\* C37: at the start of every pixel x flattenRow's read cursor is at the first
\* sample of pixel x, sample index sum of sampleCounts[i] for i < x, whether
\* earlier pixels ended early, ran through all their samples or had none; in
\* the sample loop it is at sample s of the pixel.
C37_CursorAtPixelStart ==
    /\ fr_pc \in {"pixel", "done"}
          => fr_samplePtr = RowStride * SamplesBefore(fr_deepRow, fr_x)
    /\ fr_pc = "sample"
          => fr_samplePtr = RowStride * (SamplesBefore(fr_deepRow, fr_x) + fr_s)

\* flattenRow is at the start of the second pixel after the first one ended
\* early with a sample left over
C37_Witness ==
    /\ fr_pc = "pixel" /\ fr_x = 1
    /\ getSampleCount(fr_deepRow, 0) = 2
    /\ Rd(fr_deepRow, 3) >= AlphaCut
    /\ getSampleCount(fr_deepRow, 1) > 0

\* the six floats of a gathered sample
C38_Floats(e) == <<e.r, e.g, e.b, e.a, e.z, e.z_back>>

\* C38: the stages agree on one 6-float (R, G, B, A, Z, ZBack) layout: the
\* merger finds pixel x of an input slot where the loader put it and gathers
\* from it the samples the loader read, six floats each; and the flattener
\* reads from the merged slot the samples the merger wrote.
C38_SameInterleaving ==
    /\ (mg_pc = "merge" /\ ~crashed)
          => \A i \in Files : \A x \in 0 .. (width - 1) :
                LET row == m_inputBuffer[i][merge_y % windowSize]
                    got == GatherOne(row, x)
                IN  /\ getPixelData(row, x) = LoadPixelPtr(row, x)
                    /\ Len(got) = SourceCount(i, merge_y, x)
                    /\ \A s \in DOMAIN got :
                          C38_Floats(got[s]) = SourceSample(i, merge_y, x, s - 1)
    /\ (wr_pc = "flatten" /\ ~crashed)
          => \A x \in 0 .. (width - 1) :
                LET slot == write_y % windowSize
                    wrote == Staging(InputRows(slot), x)
                    read == MergedSamples(m_mergedBuffer[slot], x)
                IN  /\ Len(read) = Len(wrote)
                    /\ \A s \in DOMAIN read :
                          read[s] = SubSeq(C38_Floats(wrote[s]), 1, RowStride)

\* C39: on a successful run with PNG output enabled, the PNG writer is handed
\* the raster processAllEXR returned together with the width and the height
\* of the validated input images.
C39_PngHasImageSize ==
    (main_pc = "exit" /\ exitCode = 0 /\ returned /\ opts.pngOutput)
        => \E a \in artefacts :
              /\ a.name = "png"
              /\ a.image = finalImage
              /\ a.width = InfoWidth(0) /\ a.height = InfoHeight(0)

====
